---------------------------- MODULE Spec2Model ----------------------------
(* go-release-cycle (main.go): tags of a repository are read into a ledger *)
(* Releases = map[Version]map[ReleaseType][]Release, SetDurations gives    *)
(* every release the time it stayed current, CSV renders the ledger.       *)
(*                                                                         *)
(* Text is a sequence of one-character strings; Version and ReleaseType    *)
(* are Go strings and so are texts here.  Dates are instants in seconds,   *)
(* durations are seconds.                                                  *)
EXTENDS Integers, Sequences, FiniteSets, TLC

VARIABLES
    pc,      \* position in main(): "parse", "error", "panic", "returned", "pass2", "done", "printed"
    r,       \* the Releases ledger
    err,     \* the error MakeReleases returns: "nil", "num", "date"
    line,    \* the input line the tag loop of MakeReleases has just scanned (NoLine before)
    call,    \* the arguments of the Add call made for that line (NoCall when none)
    nlines,  \* number of input lines scanned
    nows,    \* the readings time.Now() returned during pass 2, in call order
    show,    \* the flags <<showGA, showBeta, showRC>>
    out      \* the text CSV returned, as a sequence of lines

vars == <<pc, r, err, line, call, nlines, nows, show, out>>

---------------------------------------------------------------------------
(* Bounds of the model *)

\* most records a ledger holds
MaxRecords == 3
\* dates of tags are 1 .. MaxTime
MaxTime == 3
\* most input lines MakeReleases scans in the text-level specification
MaxLines == 2

---------------------------------------------------------------------------
(* Text *)

Digits == {"0", "1", "2", "3", "4", "5", "6", "7", "8", "9"}

DigitVal(c) ==
    CASE c = "0" -> 0 [] c = "1" -> 1 [] c = "2" -> 2 [] c = "3" -> 3
      [] c = "4" -> 4 [] c = "5" -> 5 [] c = "6" -> 6 [] c = "7" -> 7
      [] c = "8" -> 8 [] c = "9" -> 9

DigitChar(d) ==
    CASE d = 0 -> "0" [] d = 1 -> "1" [] d = 2 -> "2" [] d = 3 -> "3"
      [] d = 4 -> "4" [] d = 5 -> "5" [] d = 6 -> "6" [] d = 7 -> "7"
      [] d = 8 -> "8" [] d = 9 -> "9"

\* s[from .. to], empty when from > to
Slice(s, from, to) == SubSeq(s, from, to)

\* does text t occur in s at position p
HasAt(s, p, t) ==
    /\ p + Len(t) - 1 <= Len(s)
    /\ \A k \in 1..Len(t) : s[p + k - 1] = t[k]

\* first position >= p of s that holds no digit (Len(s)+1 when none): the end of
\* the greedy run [0-9]*
RECURSIVE DigitsEnd(_, _)
DigitsEnd(s, p) ==
    IF p <= Len(s) /\ s[p] \in Digits THEN DigitsEnd(s, p + 1) ELSE p

RECURSIVE StripZeros(_)
StripZeros(s) ==
    IF Len(s) > 1 /\ s[1] = "0" THEN StripZeros(Tail(s)) ELSE s

\* value of a digit string, most significant digit first
RECURSIVE DecValue(_)
DecValue(s) ==
    IF s = <<>> THEN 0
    ELSE 10 * DecValue(SubSeq(s, 1, Len(s) - 1)) + DigitVal(s[Len(s)])

\* a <= b for digit strings of the same length
RECURSIVE LexLE(_, _)
LexLE(a, b) ==
    IF a = <<>> THEN TRUE
    ELSE IF a[1] = b[1] THEN LexLE(Tail(a), Tail(b))
    ELSE DigitVal(a[1]) < DigitVal(b[1])

\* the decimal digits of 1<<63 - 1 and of 1<<63
MaxInt64Digits ==
    <<"9","2","2","3","3","7","2","0","3","6","8","5","4","7","7","5","8","0","7">>
MinInt64Digits ==
    <<"9","2","2","3","3","7","2","0","3","6","8","5","4","7","7","5","8","0","8">>

\* strconv.ParseInt(s, 10, 64): an optional sign, then one or more digits, the
\* value within int64.  The range is decided on the digits, the value is
\* computed for the strings that pass.
ParseInt(s) ==
    LET neg  == s # <<>> /\ s[1] = "-"
        body == IF s # <<>> /\ s[1] \in {"+", "-"} THEN Tail(s) ELSE s
        sig  == StripZeros(body)
        lim  == IF neg THEN MinInt64Digits ELSE MaxInt64Digits
    IN  IF body = <<>> \/ \E k \in 1..Len(body) : body[k] \notin Digits
          THEN [ok |-> FALSE, val |-> 0]
        ELSE IF Len(sig) > Len(lim) \/ (Len(sig) = Len(lim) /\ ~LexLE(sig, lim))
          THEN [ok |-> FALSE, val |-> 0]
        ELSE [ok |-> TRUE, val |-> IF neg THEN 0 - DecValue(sig) ELSE DecValue(sig)]

RECURSIVE NatText(_)
NatText(n) ==
    IF n < 10 THEN <<DigitChar(n)>> ELSE NatText(n \div 10) \o <<DigitChar(n % 10)>>

\* fmt's %d
FormatInt(n) == IF n < 0 THEN <<"-">> \o NatText(0 - n) ELSE NatText(n)

\* Go's integer division truncates toward zero
QuoTrunc(a, b) == IF a >= 0 THEN a \div b ELSE 0 - ((0 - a) \div b)

---------------------------------------------------------------------------
(* Versions and release types *)

BetaRelease == <<"b", "e", "t", "a">>
RCRelease   == <<"r", "c">>
GARelease   == <<".">>

ReleaseTypes == {BetaRelease, RCRelease, GARelease}

\* position of the first "." of s, 0 when there is none
RECURSIVE DotFrom(_, _)
DotFrom(s, p) ==
    IF p > Len(s) THEN 0 ELSE IF s[p] = "." THEN p ELSE DotFrom(s, p + 1)

\* parseVersion: SplitN(version, ".", 2), both parts through ParseInt; ok is
\* FALSE where the code panics
parseVersion(version) ==
    LET d   == DotFrom(version, 1)
        maj == ParseInt(Slice(version, 1, d - 1))
        min == ParseInt(Slice(version, d + 1, Len(version)))
    IN  IF d = 0 \/ ~maj.ok \/ ~min.ok
          THEN [ok |-> FALSE, major |-> 0, minor |-> 0]
          ELSE [ok |-> TRUE, major |-> maj.val, minor |-> min.val]

nextVersion(current) ==
    LET v == parseVersion(current)
    IN  FormatInt(v.major) \o <<".">> \o FormatInt(v.minor + 1)

prevVersion(current) ==
    LET v == parseVersion(current)
    IN  FormatInt(v.major) \o <<".">> \o FormatInt(v.minor - 1)

---------------------------------------------------------------------------
(* The tag pattern of MakeReleases on one line of the input: the letters  *)
(* go; group 1, the version: [0-9]+ then a dot then [0-9]+; group 2, one   *)
(* of dot, rc, beta or nothing; group 3, ONE character of [0-9+] or        *)
(* nothing; a tab; group 4, any characters up to the line end.  The        *)
(* pattern holds no line end before its last character, so a match lies    *)
(* within one line and ends with it.                                       *)

NoMatch == [ok |-> FALSE, full |-> <<>>, version |-> <<>>, revType |-> <<>>,
            num |-> <<>>, date |-> <<>>]

\* The match that starts at position s of text, if there is one.  Both runs
\* [0-9]+ are greedy; a shorter run leaves a digit where "." or the tab must
\* stand, or leads to the match the full run finds first, so backtracking over
\* them adds nothing.  The alternatives of groups 2 and 3 are tried in the
\* order written.
MatchAt(text, s) ==
    LET m1 == s + 2                      \* start of the major number
        m2 == DigitsEnd(text, m1)        \* the "." of the version
        n1 == m2 + 1                     \* start of the minor number
        n2 == DigitsEnd(text, n1)        \* end of group 1
        rev == IF HasAt(text, n2, GARelease) THEN GARelease
               ELSE IF HasAt(text, n2, RCRelease) THEN RCRelease
               ELSE IF HasAt(text, n2, BetaRelease) THEN BetaRelease
               ELSE <<>>
        p3 == n2 + Len(rev)              \* start of group 3
        num == IF p3 <= Len(text) /\ text[p3] \in Digits \cup {"+"}
               THEN <<text[p3]>> ELSE <<>>
        p4 == p3 + Len(num)              \* the tab
    IN  IF /\ HasAt(text, s, <<"g", "o">>)
           /\ m2 > m1
           /\ HasAt(text, m2, <<".">>)
           /\ n2 > n1
           /\ HasAt(text, p4, <<"\t">>)
        THEN [ok |-> TRUE,
              full |-> Slice(text, s, Len(text)),
              version |-> Slice(text, m1, n2 - 1),
              revType |-> rev,
              num |-> num,
              date |-> Slice(text, p4 + 1, Len(text))]
        ELSE NoMatch

\* FindAllStringSubmatch on one line: the leftmost match
RECURSIVE MatchFrom(_, _)
MatchFrom(text, s) ==
    IF s > Len(text) THEN NoMatch
    ELSE IF MatchAt(text, s).ok THEN MatchAt(text, s)
    ELSE MatchFrom(text, s + 1)

FindSubmatch(text) == MatchFrom(text, 1)

\* time.Parse("Mon Jan _2 15:04:05 2006 -0700", s).  A date text of the model
\* is a wall-clock digit, the sign of the zone offset and an offset digit; the
\* instant is the wall clock less the offset.  Any other text is an error.
timeParse(s) ==
    IF Len(s) = 3 /\ s[1] \in Digits /\ s[2] \in {"+", "-"} /\ s[3] \in Digits
    THEN [ok |-> TRUE,
          t |-> IF s[2] = "+" THEN DigitVal(s[1]) - DigitVal(s[3])
                ELSE DigitVal(s[1]) + DigitVal(s[3])]
    ELSE [ok |-> FALSE, t |-> 0]

---------------------------------------------------------------------------
(* The ledger: Releases map[Version]map[ReleaseType][]Release              *)

\* r[version][typ] of Go: the empty slice when a key is missing
Get(rr, version, typ) ==
    IF version \in DOMAIN rr /\ typ \in DOMAIN rr[version]
    THEN rr[version][typ] ELSE <<>>

\* the ok of  _, ok := r[version][typ]
HasKey(rr, version, typ) ==
    version \in DOMAIN rr /\ typ \in DOMAIN rr[version]

\* all (version, typ) keys of the ledger
Buckets(rr) == {b \in (DOMAIN rr) \X ReleaseTypes : b[2] \in DOMAIN rr[b[1]]}

RECURSIVE SumLen(_, _)
SumLen(rr, B) ==
    IF B = {} THEN 0
    ELSE LET b == CHOOSE x \in B : TRUE
         IN  Len(rr[b[1]][b[2]]) + SumLen(rr, B \ {b})

NumRecords(rr) == SumLen(rr, Buckets(rr))

\* all (version, typ, index) of the ledger's records, index from 1
Records(rr) ==
    UNION {{<<b[1], b[2], i>> : i \in 1..Len(rr[b[1]][b[2]])} : b \in Buckets(rr)}

\* Add panics in nextVersion on a version parseVersion rejects
AddPanics(version) == ~parseVersion(version).ok

\* Add without the check for a GA release of the next version
AddUnguarded(rr, version, typ, num, date) ==
    LET r1 == IF version \in DOMAIN rr THEN rr ELSE (version :> <<>>) @@ rr
    IN  [r1 EXCEPT ![version] =
            (typ :> Append(Get(r1, version, typ),
                           [date |-> date, duration |-> 0])) @@ @]

\* Releases.Add
Add(rr, version, typ, num, date) ==
    LET r1 == IF version \in DOMAIN rr THEN rr ELSE (version :> <<>>) @@ rr
    IN  IF HasKey(r1, nextVersion(version), GARelease) /\ typ = GARelease
        THEN r1
        ELSE [r1 EXCEPT ![version] =
                 (typ :> Append(Get(r1, version, typ),
                                [date |-> date, duration |-> 0])) @@ @]

\* Releases.SetDuration; idx counts from 1
SetDuration(rr, version, typ, date, idx) ==
    [rr EXCEPT ![version][typ][idx].duration = date - rr[version][typ][idx].date]

\* Releases.SetLastDuration
SetLastDuration(rr, version, typ, date) ==
    LET idx == Len(Get(rr, version, typ))
    IN  IF idx < 1 THEN rr ELSE SetDuration(rr, version, typ, date, idx)

\* the body of the first loop nest with a first RC that closes no beta
CloseEarlierButBeta(rr, version, typ, i) ==
    LET date == rr[version][typ][i].date
    IN  CASE typ = BetaRelease /\ i = 1 -> rr
          [] typ = RCRelease /\ i = 1 -> rr
          [] typ = GARelease /\ i = 1 ->
                SetLastDuration(SetLastDuration(rr, version, RCRelease, date),
                                prevVersion(version), GARelease, date)
          [] OTHER -> SetDuration(rr, version, typ, date, i - 1)

\* the body of the first loop nest of SetDurations for release i of a bucket
CloseEarlier(rr, version, typ, i) ==
    LET date == rr[version][typ][i].date
    IN  CASE typ = BetaRelease /\ i = 1 -> rr
          [] typ = RCRelease /\ i = 1 ->
                SetLastDuration(rr, version, BetaRelease, date)
          [] typ = GARelease /\ i = 1 ->
                SetLastDuration(SetLastDuration(rr, version, RCRelease, date),
                                prevVersion(version), GARelease, date)
          [] OTHER -> SetDuration(rr, version, typ, date, i - 1)

(* The order of a range over a Go map is not specified: a run visits the   *)
(* versions in any order and, within a version, its types in any order.    *)

RECURSIVE Perms(_)
Perms(S) ==
    IF S = {} THEN {<<>>}
    ELSE UNION {{<<x>> \o p : p \in Perms(S \ {x})} : x \in S}

RECURSIVE OrdersOf(_, _)
OrdersOf(rr, V) ==
    IF V = {} THEN {<<>>}
    ELSE UNION {{[k \in 1..Len(tp) |-> <<v, tp[k]>>] \o rest :
                    tp \in Perms(DOMAIN rr[v]), rest \in OrdersOf(rr, V \ {v})} :
                v \in V}

\* the orders in which the nested range loops may visit the buckets
MapOrders(rr) == OrdersOf(rr, DOMAIN rr)

RECURSIVE Pass1Bucket(_, _, _, _)
Pass1Bucket(rr, version, typ, i) ==
    IF i > Len(rr[version][typ]) THEN rr
    ELSE Pass1Bucket(CloseEarlier(rr, version, typ, i), version, typ, i + 1)

\* the first loop nest of SetDurations, the buckets visited in order ord
RECURSIVE Pass1(_, _)
Pass1(rr, ord) ==
    IF ord = <<>> THEN rr
    ELSE Pass1(Pass1Bucket(rr, ord[1][1], ord[1][2], 1), Tail(ord))

\* the values time.Now() may return: before the latest date a tag may bear, and
\* after every date
NowValues == {MaxTime - 1, MaxTime + 1}

\* the readings of k calls of time.Now(): the clock does not run backwards
RECURSIVE NowSeqs(_, _)
NowSeqs(k, lo) ==
    IF k = 0 THEN {<<>>}
    ELSE UNION {{<<t>> \o s : s \in NowSeqs(k - 1, t)} :
                t \in {x \in NowValues : x >= lo}}

\* the second loop nest over one bucket from release i on; clk holds the
\* readings time.Now() has yet to return
RECURSIVE Pass2Bucket(_, _, _, _, _)
Pass2Bucket(rr, version, typ, i, clk) ==
    IF i > Len(rr[version][typ]) THEN [r |-> rr, clk |-> clk]
    ELSE IF rr[version][typ][i].duration = 0
         THEN Pass2Bucket(SetDuration(rr, version, typ, Head(clk), i),
                          version, typ, i + 1, Tail(clk))
         ELSE Pass2Bucket(rr, version, typ, i + 1, clk)

\* a second loop nest that stops after the first bucket
Pass2FirstBucket(rr, ord, clk) ==
    IF ord = <<>> THEN rr
    ELSE Pass2Bucket(rr, ord[1][1], ord[1][2], 1, clk).r

\* the second loop nest of SetDurations, the buckets visited in order ord
RECURSIVE Pass2(_, _, _)
Pass2(rr, ord, clk) ==
    IF ord = <<>> THEN rr
    ELSE LET b == Pass2Bucket(rr, ord[1][1], ord[1][2], 1, clk)
         IN  Pass2(b.r, Tail(ord), b.clk)

\* the records the second loop nest closes
Unset(rr) == {x \in Records(rr) : rr[x[1]][x[2]][x[3]].duration = 0}

---------------------------------------------------------------------------
(* Releases.CSV *)

SecondsPerDay == 86400

RECURSIVE Join(_, _)
Join(cells, sep) ==
    IF cells = <<>> THEN <<>>
    ELSE IF Len(cells) = 1 THEN cells[1]
    ELSE cells[1] \o sep \o Join(Tail(cells), sep)

\* the loop over the releases of one row, release i (from 0) onwards; header
\* grows by the column i whenever i > len(header)-2
RECURSIVE RowCells(_, _, _, _)
RowCells(releases, i, header, buf) ==
    IF i >= Len(releases) THEN [header |-> header, buf |-> buf]
    ELSE RowCells(releases, i + 1,
                  IF i > Len(header) - 2 THEN Append(header, FormatInt(i))
                  ELSE header,
                  buf \o FormatInt(QuoTrunc(releases[i + 1].duration, SecondsPerDay))
                      \o <<",">>)

\* the flags of the beta and the RC rows taken for one another
HiddenSwapped(typ, showGA, showBeta, showRC) ==
    \/ typ = GARelease /\ ~showGA
    \/ typ = BetaRelease /\ ~showRC
    \/ typ = RCRelease /\ ~showBeta

\* is the bucket of type typ left out by the flags
Hidden(typ, showGA, showBeta, showRC) ==
    \/ typ = GARelease /\ ~showGA
    \/ typ = BetaRelease /\ ~showBeta
    \/ typ = RCRelease /\ ~showRC

\* the loop nest of CSV over the buckets in order ord; rows holds the lines
\* written to buf so far
RECURSIVE CSVRows(_, _, _, _, _, _, _)
CSVRows(rr, ord, showGA, showBeta, showRC, header, rows) ==
    IF ord = <<>> THEN [header |-> header, rows |-> rows]
    ELSE LET version == ord[1][1]
             typ == ord[1][2]
         IN  IF Hidden(typ, showGA, showBeta, showRC)
             THEN CSVRows(rr, Tail(ord), showGA, showBeta, showRC, header, rows)
             ELSE LET row == RowCells(rr[version][typ], 0, header,
                                      version \o typ \o <<",">>)
                  IN  CSVRows(rr, Tail(ord), showGA, showBeta, showRC,
                              row.header, Append(rows, row.buf))

\* the text CSV returns, line by line: the header, then the rows
CSV(rr, showGA, showBeta, showRC, ord) ==
    LET res == CSVRows(rr, ord, showGA, showBeta, showRC, <<<<>>>>, <<>>)
    IN  <<Join(res.header, <<",">>)>> \o res.rows

---------------------------------------------------------------------------
(* Inputs *)

V6  == <<"1", ".", "6">>
V7  == <<"1", ".", "7">>
\* the minor of 1.7 written with a leading zero
V07 == <<"1", ".", "0", "7">>
\* a minor number past 1<<63 - 1
VBig == <<"1", ".">> \o [k \in 1..20 |-> "9"]

\* the versions Add is called with in the ledger-level specification
Versions == {V6, V7}

\* the same with a version that is not in the form nextVersion and prevVersion
\* write
AnyVersions == {V6, V7, V07}

\* the release numbers Add is called with
Nums == {0, 1}

\* the lines of the input text: what stands before the tag, the version, the
\* marker of the release type, the release number, the separator and the date.
\* A number stands only behind a marker, as in Go's tags (go1.7, go1.7.1,
\* go1.7rc1, go1.7beta1).
LinePrefixes == {<<>>, <<"s", "/">>}
LineVersions == {V6, V7, V07, VBig}
LineMarkers  == {<<>>, GARelease, RCRelease, BetaRelease}
LineNums     == {<<>>, <<"1">>, <<"1", "0">>, <<"+">>}
LineSeps     == {<<"\t">>, <<",">>}
LineDates    == {<<"1", "+", "0">>, <<"3", "+", "1">>, <<"x">>}

Lines ==
    {ln \in [pre : LinePrefixes, version : LineVersions, rev : LineMarkers,
             num : LineNums, sep : LineSeps, date : LineDates] :
        ln.rev = <<>> => ln.num = <<>>}

Text(ln) ==
    ln.pre \o <<"g", "o">> \o ln.version \o ln.rev \o ln.num \o ln.sep \o ln.date

NoLine == [pre |-> <<>>, version |-> <<>>, rev |-> <<>>, num |-> <<>>,
           sep |-> <<>>, date |-> <<>>]

NoCall == [made |-> FALSE, version |-> <<>>, typ |-> <<>>, num |-> 0, date |-> 0]

\* the ledgers handed to CSV in the rendering specification: up to n records
\* in the buckets of two versions, each with one of two durations
CSVDurations == {0 - 1, 90000}

RECURSIVE LedgersUpTo(_)
LedgersUpTo(n) ==
    IF n = 0 THEN {<<>>}
    ELSE LET P == LedgersUpTo(n - 1)
         IN  P \cup {SetLastDuration(Add(l, v, t, 0, 1), v, t, 1 + d) :
                        l \in P, v \in {V6, V7}, t \in ReleaseTypes,
                        d \in CSVDurations}

---------------------------------------------------------------------------
(* The ledger-level specification: any calls of Add, then SetDurations      *)

Init ==
    /\ pc = "parse"
    /\ r = <<>>
    /\ err = "nil"
    /\ line = NoLine
    /\ call = NoCall
    /\ nlines = 0
    /\ nows = <<>>
    /\ show = <<FALSE, FALSE, FALSE>>
    /\ out = <<>>

\* one call releases.Add(version, typ, num, date), the version out of VS
AddCallWith(VS) ==
    /\ pc = "parse"
    /\ NumRecords(r) < MaxRecords
    /\ \E version \in VS, typ \in ReleaseTypes, num \in Nums, date \in 1..MaxTime :
          /\ r' = Add(r, version, typ, num, date)
          /\ call' = [made |-> TRUE, version |-> version, typ |-> typ,
                      num |-> num, date |-> date]
    /\ UNCHANGED <<pc, err, line, nlines, nows, show, out>>

AddCall == AddCallWith(Versions)

AddCallAny == AddCallWith(AnyVersions)

\* MakeReleases returns releases, nil (line 109); its loop variables are gone
ReturnReleases ==
    /\ pc = "parse"
    /\ pc' = "returned"
    /\ line' = NoLine
    /\ call' = NoCall
    /\ UNCHANGED <<r, err, nlines, nows, show, out>>

\* SetDurations, first loop nest (lines 132-152)
SetDurationsPass1 ==
    /\ pc = "returned"
    /\ \E ord \in MapOrders(r) : r' = Pass1(r, ord)
    /\ pc' = "pass2"
    /\ UNCHANGED <<err, line, call, nlines, nows, show, out>>

\* SetDurations, second loop nest (lines 157-165): one reading of time.Now()
\* for every release whose duration is 0
SetDurationsPass2 ==
    /\ pc = "pass2"
    /\ \E ord \in MapOrders(r), clk \in NowSeqs(Cardinality(Unset(r)), 0) :
          /\ r' = Pass2(r, ord, clk)
          /\ nows' = clk
    /\ pc' = "done"
    /\ UNCHANGED <<err, line, call, nlines, show, out>>

Next == AddCall \/ ReturnReleases \/ SetDurationsPass1 \/ SetDurationsPass2

Spec == Init /\ [][Next]_vars

\* the same on versions in any written form
NextAny == AddCallAny \/ ReturnReleases \/ SetDurationsPass1 \/ SetDurationsPass2

SpecAny == Init /\ [][NextAny]_vars

---------------------------------------------------------------------------
(* The text-level specification: main() on an input text, MakeReleases     *)
(* scanning it line by line, then SetDurations                             *)

\* the release type MakeReleases passes to Add (lines 103-105)
RevTypeOf(tag) == IF tag.revType = <<>> THEN GARelease ELSE tag.revType

\* the release number MakeReleases passes to Add (lines 89-96)
NumOf(tag) == IF tag.num # <<>> THEN ParseInt(tag.num).val ELSE 0

\* strconv.ParseInt fails on a number that is not empty (lines 90-93)
NumFails(tag) == tag.num # <<>> /\ ~ParseInt(tag.num).ok

\* every line of the input with the submatches of the pattern on it
Scanned == {[ln |-> ln, tag |-> FindSubmatch(Text(ln))] : ln \in Lines}

\* tags: the lines the pattern matches
Tags == {x \in Scanned : x.tag.ok}

Scan(ln) ==
    /\ pc = "parse"
    /\ nlines < MaxLines
    /\ line' = ln
    /\ nlines' = nlines + 1

\* a line the pattern does not match is no element of tags
ScanSkip ==
    \E x \in Scanned \ Tags :
       /\ Scan(x.ln)
       /\ call' = NoCall
       /\ UNCHANGED <<pc, r, err, nows, show, out>>

\* return nil, "could not parse release number" (lines 92-95)
ScanBadNum ==
    \E x \in Tags :
       /\ Scan(x.ln)
       /\ NumFails(x.tag)
       /\ pc' = "error"
       /\ err' = "num"
       /\ r' = <<>>
       /\ call' = NoCall
       /\ UNCHANGED <<nows, show, out>>

\* return nil, "could not parse date" (lines 98-101)
ScanBadDate ==
    \E x \in Tags :
       /\ Scan(x.ln)
       /\ ~NumFails(x.tag)
       /\ ~timeParse(x.tag.date).ok
       /\ pc' = "error"
       /\ err' = "date"
       /\ r' = <<>>
       /\ call' = NoCall
       /\ UNCHANGED <<nows, show, out>>

\* releases.Add(version, revType, int(num), date) (line 107)
ScanAdd ==
    \E x \in Tags :
       LET tag == x.tag
           date == timeParse(tag.date).t
       IN  /\ Scan(x.ln)
           /\ ~NumFails(tag)
           /\ timeParse(tag.date).ok
           /\ ~AddPanics(tag.version)
           /\ r' = Add(r, tag.version, RevTypeOf(tag), NumOf(tag), date)
           /\ call' = [made |-> TRUE, version |-> tag.version,
                       typ |-> RevTypeOf(tag), num |-> NumOf(tag), date |-> date]
           /\ UNCHANGED <<pc, err, nows, show, out>>

\* the same call, panicking in parseVersion (lines 225-232)
ScanPanic ==
    \E x \in Tags :
       LET tag == x.tag
       IN  /\ Scan(x.ln)
           /\ ~NumFails(tag)
           /\ timeParse(tag.date).ok
           /\ AddPanics(tag.version)
           /\ pc' = "panic"
           /\ call' = [made |-> TRUE, version |-> tag.version,
                       typ |-> RevTypeOf(tag), num |-> NumOf(tag),
                       date |-> timeParse(tag.date).t]
           /\ UNCHANGED <<r, err, nows, show, out>>

NextTags ==
    \/ ScanSkip \/ ScanBadNum \/ ScanBadDate \/ ScanAdd \/ ScanPanic
    \/ ReturnReleases \/ SetDurationsPass1 \/ SetDurationsPass2

SpecTags == Init /\ [][NextTags]_vars

---------------------------------------------------------------------------
(* The rendering specification: CSV on a ledger with its durations set      *)

InitCSV ==
    /\ pc = "done"
    /\ r \in LedgersUpTo(MaxRecords)
    /\ show \in BOOLEAN \X BOOLEAN \X BOOLEAN
    /\ err = "nil"
    /\ line = NoLine
    /\ call = NoCall
    /\ nlines = 0
    /\ nows = <<>>
    /\ out = <<>>

\* fmt.Print(releases.CSV(*showGA, *showBeta, *showRC))
PrintCSV ==
    /\ pc = "done"
    /\ \E ord \in MapOrders(r) : out' = CSV(r, show[1], show[2], show[3], ord)
    /\ pc' = "printed"
    /\ UNCHANGED <<r, err, line, call, nlines, nows, show>>

NextCSV == PrintCSV

SpecCSV == InitCSV /\ [][NextCSV]_vars

---------------------------------------------------------------------------
(* Properties *)

DateOf(x) == r[x[1]][x[2]][x[3]].date
DurationOf(x) == r[x[1]][x[2]][x[3]].duration

\* the records of a bucket but the last, and the last
Earlier(rr, version, typ) ==
    {<<version, typ, i>> : i \in 1..(Len(Get(rr, version, typ)) - 1)}
Last(rr, version, typ) == <<version, typ, Len(rr[version][typ])>>

\* Records inserted with strictly increasing dates lie in their lists in that
\* order (Add appends) and bear different dates, and records that do so can be
\* inserted that way; likewise for dates that only never decrease.
Increasing(X) ==
    /\ \A x, y \in X : x # y => DateOf(x) # DateOf(y)
    /\ \A x, y \in X :
          (x[1] = y[1] /\ x[2] = y[2] /\ x[3] < y[3]) => DateOf(x) < DateOf(y)

NonDecreasing(X) ==
    \A x, y \in X :
       (x[1] = y[1] /\ x[2] = y[2] /\ x[3] < y[3]) => DateOf(x) <= DateOf(y)

RecordsOf(version) == {x \in Records(r) : x[1] = version}

\* C1: pre-release closure.  After SetDurations, in a version whose records
\* were inserted with strictly increasing dates, (a) a Beta or RC record that
\* is not the last of its list has the date of the next record of the list
\* less its own as duration, (b) the last Beta record has the date of the
\* version's first RC less its own whenever the version has an RC, (c) the last
\* RC record has the date of the version's first GA less its own whenever the
\* version has a GA.  (The dates need not lie before now for it.)
C1_PreReleaseClosure ==
    pc = "done" =>
    \A v \in DOMAIN r :
       Increasing(RecordsOf(v)) =>
          /\ \A x \in Earlier(r, v, BetaRelease) \cup Earlier(r, v, RCRelease) :
                DurationOf(x) = DateOf(<<x[1], x[2], x[3] + 1>>) - DateOf(x)
          /\ (HasKey(r, v, BetaRelease) /\ HasKey(r, v, RCRelease)) =>
                DurationOf(Last(r, v, BetaRelease))
                   = DateOf(<<v, RCRelease, 1>>) - DateOf(Last(r, v, BetaRelease))
          /\ (HasKey(r, v, RCRelease) /\ HasKey(r, v, GARelease)) =>
                DurationOf(Last(r, v, RCRelease))
                   = DateOf(<<v, GARelease, 1>>) - DateOf(Last(r, v, RCRelease))

\* C1's case: durations are set on a version with two betas and a release
\* candidate inserted at increasing dates, every date before every reading of
\* the clock
C1_Witness ==
    /\ pc = "done"
    /\ \E v \in DOMAIN r :
          /\ Increasing(RecordsOf(v))
          /\ Len(Get(r, v, BetaRelease)) = 2
          /\ Len(Get(r, v, RCRelease)) = 1
          /\ \A x \in RecordsOf(v), k \in 1..Len(nows) : DateOf(x) < nows[k]

\* A ledger that inserts at strictly increasing dates build: its records lie in
\* date order in their lists, no two bear the same date, and no GA record of a
\* version is later than the first GA record of the next version (Add had
\* dropped it).
Chronological ==
    /\ Increasing(Records(r))
    /\ \A v \in DOMAIN r :
          (HasKey(r, v, GARelease) /\ HasKey(r, nextVersion(v), GARelease)) =>
             DateOf(Last(r, v, GARelease)) < DateOf(<<nextVersion(v), GARelease, 1>>)

\* C2: GA closure across minors.  After SetDurations on a ledger built by
\* inserts at strictly increasing dates, a GA record of version V that is not
\* the last of its list has the date of the next GA record of V less its own
\* as duration, and the last GA record of V has the date of the first GA record
\* of nextVersion(V) less its own whenever nextVersion(V) has a GA record.
C2_GAClosure ==
    (pc = "done" /\ Chronological) =>
    \A v \in DOMAIN r :
       /\ \A x \in Earlier(r, v, GARelease) :
             DurationOf(x) = DateOf(<<x[1], x[2], x[3] + 1>>) - DateOf(x)
       /\ (HasKey(r, v, GARelease) /\ HasKey(r, nextVersion(v), GARelease)) =>
             DurationOf(Last(r, v, GARelease))
                = DateOf(<<nextVersion(v), GARelease, 1>>) - DateOf(Last(r, v, GARelease))

\* C3: supersession guard.  A call Add(V, GA, n, t) on a ledger that holds a GA
\* record for nextVersion(V) leaves every list as it was and makes no new one;
\* hence once nextVersion(V) has a GA record no call of Add changes the GA list
\* of V, while a Beta or RC call for V still appends its record.
C3_SupersessionGuard ==
    [][(pc = "parse" /\ pc' = "parse" /\ call'.made) =>
         LET c == call'
         IN  /\ (c.typ = GARelease /\ HasKey(r, nextVersion(c.version), GARelease)) =>
                   /\ Buckets(r') = Buckets(r)
                   /\ \A b \in Buckets(r) : r'[b[1]][b[2]] = r[b[1]][b[2]]
             /\ \A v \in DOMAIN r :
                   HasKey(r, nextVersion(v), GARelease) =>
                      /\ HasKey(r', v, GARelease) = HasKey(r, v, GARelease)
                      /\ Get(r', v, GARelease) = Get(r, v, GARelease)
             /\ c.typ \in {BetaRelease, RCRelease} =>
                   Get(r', c.version, c.typ)
                      = Append(Get(r, c.version, c.typ),
                               [date |-> c.date, duration |-> 0])
      ]_vars

\* C3's case: the last call was Add(V, GA, n, t), V has a GA list already and so
\* has nextVersion(V); the date of the call is in none of V's GA records
C3_Witness ==
    /\ pc = "parse"
    /\ call.made
    /\ call.typ = GARelease
    /\ HasKey(r, call.version, GARelease)
    /\ HasKey(r, nextVersion(call.version), GARelease)
    /\ \A i \in 1..Len(r[call.version][GARelease]) :
          r[call.version][GARelease][i].date # call.date

\* C4 as stated: total coverage for any value of now.  After SetDurations every
\* record of every list has a duration other than zero.
C4_TotalCoverage ==
    pc = "done" => \A x \in Records(r) : DurationOf(x) # 0

\* C4, amended: after SetDurations every record whose date differs from every
\* reading of the clock has a duration other than zero.
C4_TotalCoverageOffNow ==
    pc = "done" =>
    \A x \in Records(r) :
       (\A k \in 1..Len(nows) : nows[k] # DateOf(x)) => DurationOf(x) # 0

\* C4's case: the second loop nest has closed two records and no record is
\* left with the zero duration
C4_Witness ==
    /\ pc = "done"
    /\ Len(nows) >= 2
    /\ \A x \in Records(r) : DurationOf(x) # 0

\* C5: single reference time.  Any two records the second loop nest of
\* SetDurations closes are closed against the same instant: their dates plus
\* their durations are equal.
C5_SingleReferenceTime ==
    [][(pc = "pass2" /\ pc' = "done") =>
         \A x, y \in Unset(r) :
            r'[x[1]][x[2]][x[3]].date + r'[x[1]][x[2]][x[3]].duration
               = r'[y[1]][y[2]][y[3]].date + r'[y[1]][y[2]][y[3]].duration
      ]_vars

\* C9: order independence of pass 1.  Whatever ledger Add calls built, the
\* first loop nest of SetDurations leaves the same durations for every order
\* in which the map iteration visits the versions and their lists.
C9_OrderIndependence ==
    [][(pc = "returned" /\ pc' = "pass2") =>
         \A ord \in MapOrders(r) : r' = Pass1(r, ord)
      ]_vars

\* A ledger that inserts at never decreasing dates build.
ChronologicalOrEqual ==
    /\ NonDecreasing(Records(r))
    /\ \A v \in DOMAIN r :
          (HasKey(r, v, GARelease) /\ HasKey(r, nextVersion(v), GARelease)) =>
             DateOf(Last(r, v, GARelease)) <= DateOf(<<nextVersion(v), GARelease, 1>>)

\* the records whose closing dates the first loop nest sets, with the record
\* that closes each
Closers ==
    {<<x, <<x[1], x[2], x[3] + 1>>>> :
        x \in UNION {Earlier(r, b[1], b[2]) : b \in Buckets(r)}}
    \cup {<<Last(r, v, BetaRelease), <<v, RCRelease, 1>>>> :
            v \in {w \in DOMAIN r : HasKey(r, w, BetaRelease) /\ HasKey(r, w, RCRelease)}}
    \cup {<<Last(r, v, RCRelease), <<v, GARelease, 1>>>> :
            v \in {w \in DOMAIN r : HasKey(r, w, RCRelease) /\ HasKey(r, w, GARelease)}}
    \cup {<<Last(r, prevVersion(v), GARelease), <<v, GARelease, 1>>>> :
            v \in {w \in DOMAIN r : HasKey(r, w, GARelease)
                                      /\ HasKey(r, prevVersion(w), GARelease)}}

\* C10: pass 2 only fills in still current releases.  On a ledger built by
\* inserts at never decreasing dates, a record the first loop nest closed ends
\* SetDurations with the closing date less its own date, and a record it did
\* not close ends with a reading of the clock less its own date.
C10_Pass2OnlyCurrent ==
    (pc = "done" /\ ChronologicalOrEqual) =>
    /\ \A c \in Closers : DurationOf(c[1]) = DateOf(c[2]) - DateOf(c[1])
    /\ \A x \in Records(r) \ {c[1] : c \in Closers} :
          \E k \in 1..Len(nows) : DurationOf(x) = nows[k] - DateOf(x)

\* C6: all-or-nothing parsing.  When MakeReleases comes to a line the pattern
\* matches whose date or whose number, not empty, does not parse, it returns an
\* error and no ledger, and takes no line after it; on any other line it goes
\* on with no error; a line the pattern does not match changes no record.
C6_AllOrNothing ==
    [][(nlines' = nlines + 1) =>
         LET tag == FindSubmatch(Text(line'))
             malformed == tag.ok /\ (NumFails(tag) \/ ~timeParse(tag.date).ok)
         IN  /\ pc = "parse"
             /\ malformed => (pc' = "error" /\ err' # "nil" /\ r' = <<>>)
             /\ ~malformed => (pc' = "parse" /\ err' = "nil")
             /\ ~tag.ok => r' = r
      ]_vars

\* is s a string of decimal digits, the empty one included
AllDigits(s) == \A k \in 1..Len(s) : s[k] \in Digits

\* C8: tag recognition.  A line made of go, a version, an optional marker
\* (".", "rc" or "beta"), an optional number of one or more decimal digits, the
\* tab and a date that parses leads to one call of Add with that version, the
\* release type of the marker, the value of the digits (0 for none) and the
\* date, for numbers of any length.
C8_TagRecognition ==
    (/\ line # NoLine
     /\ line.sep = <<"\t">>
     /\ AllDigits(line.num)
     /\ timeParse(line.date).ok) =>
       call = [made |-> TRUE,
               version |-> line.version,
               typ |-> IF line.rev = <<>> THEN GARelease ELSE line.rev,
               num |-> DecValue(line.num),
               date |-> timeParse(line.date).t]

\* the label of a row of the output: its text up to the first comma
RECURSIVE RowLabel(_)
RowLabel(row) ==
    IF row = <<>> \/ Head(row) = "," THEN <<>>
    ELSE <<Head(row)>> \o RowLabel(Tail(row))

\* the buckets the flags showGA, showBeta, showRC ask for
Shown ==
    {b \in Buckets(r) : \/ b[2] = GARelease /\ show[1]
                        \/ b[2] = BetaRelease /\ show[2]
                        \/ b[2] = RCRelease /\ show[3]}

\* one row for each of the buckets asked for and no other row, the row of
\* bucket b bearing the label Label(b)
RowsAre(Label(_)) ==
    /\ Len(out) = 1 + Cardinality(Shown)
    /\ \A b \in Shown : \E i \in 2..Len(out) : RowLabel(out[i]) = Label(b)

PhaseLabel(typ) == IF typ = GARelease THEN <<>> ELSE typ

LabelAsSpecified(b) == b[1] \o PhaseLabel(b[2])

LabelAsWritten(b) == b[1] \o b[2]

\* C7 as stated: the output of CSV has one row for every bucket whose flag is
\* set and no row for another, labelled with the version and then nothing for
\* GA, "rc" for RC, "beta" for Beta.
C7_RowsAndLabels ==
    pc = "printed" => RowsAre(LabelAsSpecified)

\* C7, amended: the output of CSV has one row for every bucket whose flag is
\* set and no row for another, labelled with the version and then the release
\* type as the ledger holds it: "." for GA (the GA row of 1.7 is "1.7."), "rc"
\* for RC, "beta" for Beta.
C7_RowsAndTypeLabels ==
    pc = "printed" => RowsAre(LabelAsWritten)

\* C7's case: CSV has printed a ledger with GA and RC rows asked for and
\* present, and beta rows present but not asked for
C7_Witness ==
    /\ pc = "printed"
    /\ show = <<TRUE, FALSE, TRUE>>
    /\ \E v, w, u \in DOMAIN r :
          /\ HasKey(r, v, GARelease)
          /\ HasKey(r, w, RCRelease)
          /\ HasKey(r, u, BetaRelease)

===========================================================================
